---- MODULE Spec2Model ----
(***************************************************************************)
(* Model of thermo/gpumd/calc.py: the Green-Kubo modal analysis            *)
(* get_gkma_kappa, the running average running_ave, the unit scaler        *)
(* __scale_gpumd_tc and the HNEMD converter hnemd_spectral_kappa.          *)
(*                                                                         *)
(* Numbers.  Python floats are modelled in two ways.  Where the code turns *)
(* a float into an integer (np.floor at line 107) the rounding of every    *)
(* float operation decides the result, so those operations are modelled    *)
(* as binary floating point with a FloatBits-bit significand and           *)
(* round-to-nearest-even (IEEE 754 with a short significand).  Everywhere  *)
(* else a value is the exact rational <<numerator, denominator>>, and      *)
(* the results of 0/0 and x/0 on numpy arrays are the values NaN and Inf.  *)
(***************************************************************************)
EXTENDS Integers, Sequences, FiniteSets, TLC

(***************************************************************************)
(* Bounds of the model.                                                    *)
(***************************************************************************)
FloatBits == 4      \* significand width of the modelled floats
MaxBins == 2        \* nbins ranges over 1..MaxBins
MaxSamples == 4     \* nsamples ranges over 1..MaxSamples
MaxInterval == 2    \* sample_interval ranges over 1..MaxInterval
MaxTemp == 4        \* T ranges over 1..MaxTemp
MaxVol == 3         \* vol ranges over 1..MaxVol
MaxMissing == 1     \* at most this many input channels are absent
MaxLen == 3         \* longest array handed to running_ave
MaxJ == 2           \* spectral currents range over -MaxJ..MaxJ

None == "None"
\* max_tau=None, the default of the float argument max_tau
Omitted == << >>
\* the non-finite results of a numpy division, as n/0
NaN == << 0, 0 >>
Inf == << 1, 0 >>

(***************************************************************************)
(* Exact rationals <<n, d>> with d > 0, kept in lowest terms.              *)
(***************************************************************************)
Abs(i) == IF i < 0 THEN -i ELSE i

RECURSIVE Gcd(_, _)
Gcd(a, b) == IF b = 0 THEN a ELSE Gcd(b, a % b)

Rat(n, d) ==
    LET g == Gcd(Abs(n), Abs(d))
        s == IF d < 0 THEN -1 ELSE 1
    IN  << (s * n) \div g, (s * d) \div g >>

RInt(i) == << i, 1 >>
RAdd(p, q) == Rat(p[1] * q[2] + q[1] * p[2], p[2] * q[2])
RSub(p, q) == Rat(p[1] * q[2] - q[1] * p[2], p[2] * q[2])
RMul(p, q) == Rat(p[1] * q[1], p[2] * q[2])
RLess(p, q) == p[1] * q[2] < q[1] * p[2]
IsRat(v) == v[2] # 0

\* numpy true division of two array elements: x/0 does not raise, it yields
\* nan (0/0) or +-inf (x/0) and a RuntimeWarning
NpDiv(p, q) ==
    IF q[1] = 0 THEN (IF p[1] = 0 THEN NaN ELSE Inf)
    ELSE Rat(p[1] * q[2], p[2] * q[1])

(***************************************************************************)
(* Floats <<m, e>> standing for m * 2^e with |m| < 2^FloatBits.            *)
(***************************************************************************)
RECURSIVE Shift(_, _)
\* least s with M \div 2^s < 2^FloatBits, counted up from s
Shift(M, s) == IF M \div (2 ^ s) < 2 ^ FloatBits THEN s ELSE Shift(M, s + 1)

\* sg * M * 2^E rounded to FloatBits significant bits, ties to even
Round(sg, M, E) ==
    LET s == Shift(M, 0)
        hi == M \div (2 ^ s)
        lo == M % (2 ^ s)
        half == IF s = 0 THEN 0 ELSE 2 ^ (s - 1)
        up == s > 0 /\ (lo > half \/ (lo = half /\ hi % 2 = 1))
        r == IF up THEN hi + 1 ELSE hi
    IN  IF r = 2 ^ FloatBits THEN << sg * (r \div 2), E + s + 1 >>
        ELSE << sg * r, E + s >>

Sign(i) == IF i < 0 THEN -1 ELSE 1

FInt(i) == Round(Sign(i), Abs(i), 0)
FMul(a, b) == Round(Sign(a[1]) * Sign(b[1]), Abs(a[1]) * Abs(b[1]), a[2] + b[2])

\* a / b for b # 0: the quotient to 2*FloatBits+2 bits and a sticky bit
FDiv(a, b) ==
    LET k == 2 * FloatBits + 2
        num == Abs(a[1]) * (2 ^ k)
        q == num \div Abs(b[1])
        st == IF num % Abs(b[1]) = 0 THEN 0 ELSE 1
    IN  Round(Sign(a[1]) * Sign(b[1]), 2 * q + st, a[2] - b[2] - k - 1)

\* int(np.floor(x))
Floor(a) ==
    IF a[2] >= 0 THEN a[1] * (2 ^ a[2])
    ELSE IF a[1] >= 0 THEN a[1] \div (2 ^ (0 - a[2]))
    ELSE 0 - ((Abs(a[1]) + (2 ^ (0 - a[2])) - 1) \div (2 ^ (0 - a[2])))

\* the exact value of a float as a rational
FVal(a) == IF a[2] >= 0 THEN RInt(a[1] * (2 ^ a[2])) ELSE Rat(a[1], 2 ^ (0 - a[2]))

(***************************************************************************)
(* numpy / scipy array functions used by calc.py.  A 1-D array is a        *)
(* sequence, a 2-D array a sequence of rows; Python index i is TLA+ index  *)
(* i + 1.  For a function that can raise, f_raises says when it does.     *)
(***************************************************************************)

RECURSIVE RSum(_, _)
\* sum of f[1..n]
RSum(f, n) == IF n = 0 THEN RInt(0) ELSE RAdd(RSum(f, n - 1), f[n])

\* np.linspace(0, max_lag * srate, num) for the exact step srate: raises for
\* num < 0, is empty for num = 0 (np.squeeze leaves a 1-D array as it is)
linspace_raises(num) == num < 0
linspace(lag, srate, num) == [k \in 1..num |-> RMul(RInt(k - 1), srate)]

\* np.zeros((rows, cols))
zeros(rows, cols) == [r \in 1..rows |-> [c \in 1..cols |-> RInt(0)]]

\* np.sum(a, axis=0) of a 2-D array with ncols columns
sum_axis0(a, ncols) ==
    [t \in 1..ncols |-> RSum([r \in 1..Len(a) |-> a[r][t]], Len(a))]

\* a + b, elementwise, for two 2-D arrays of one shape
add2d(a, b) == [r \in 1..Len(a) |-> [t \in 1..Len(a[r]) |-> RAdd(a[r][t], b[r][t])]]

\* cumtrapz replaced by the rectangle rule np.cumsum(y * dx)
cumtrapz_rectangle(y, xs) ==
    LET dx(i) == IF i < Len(xs) THEN RSub(xs[i + 1], xs[i])
                 ELSE IF i > 1 THEN RSub(xs[i], xs[i - 1]) ELSE RInt(1)
    IN  [n \in 1..Len(y) |-> RSum([i \in 1..n |-> RMul(y[i], dx(i))], n)]

\* scipy.integrate.cumtrapz(y, x, initial=0): the value initial, followed by
\* the running sums of diff(x) * (y[1:] + y[:-1]) / 2; x and y of different
\* lengths raise
cumtrapz_raises(y, xs) == Len(y) # Len(xs)
cumtrapz(y, xs) ==
    LET trap(i) == RMul(RSub(xs[i + 1], xs[i]),
                        RMul(RAdd(y[i + 1], y[i]), Rat(1, 2)))
    IN  [n \in 1..Len(y) |->
            IF n = 1 THEN RInt(0)
            ELSE RSum([i \in 1..(n - 1) |-> trap(i)], n - 1)]

\* thermo.math.correlate.corr(f, g, max_lag):
\* C(k) = 1/(N-k) * sum_{t=0}^{N-k-1} f[t] * g[t+k] for k = 0..max_lag;
\* series of different lengths or a lag outside 0 <= max_lag < N are an error.
\* The series are real (astype(complex128) of real data), so conj is a no-op.
corr_raises(f, g, lag) == Len(f) # Len(g) \/ lag < 0 \/ lag >= Len(f)
corr(f, g, lag) ==
    LET N == Len(f)
    IN  [k \in 1..(lag + 1) |->
            RMul(RSum([t \in 1..(N - k + 1) |-> RMul(f[t], g[t + k - 1])],
                      N - k + 1),
                 Rat(1, N - k + 1))]

\* a[m, :] = row
SetRow(a, row, r) == [a EXCEPT ![r] = row]

\* arr * scale and arr / 1.e6 on a 1-D array
scale1d(arr, c) == [k \in 1..Len(arr) |-> RMul(arr[k], c)]

\* the scale with vol in the numerator
scale_gpumd_tc_times_vol(vol, T) == Rat(vol, T * T)

(***************************************************************************)
(* __scale_gpumd_tc(vol, T), in units of the constant one * two * three    *)
(* (= 1.602176634e-19 * 9.651599e7 * 1e-15 * 1e30 / 8.617333262145e-5,     *)
(* about 1.794e8, which is positive): the returned value is that constant  *)
(* times the rational below.  Every km* array is in the same unit.         *)
(***************************************************************************)
scale_gpumd_tc(vol, T) == Rat(1, T * T * vol)

(***************************************************************************)
(* get_gkma_kappa: the dataset, the per-direction tables and the inputs.   *)
(***************************************************************************)
Channels == {"jmxi", "jmxo", "jmyi", "jmyo", "jmz"}
DerivedKeys == {"tau", "corr_xmi_x", "corr_xmo_x", "kmxi", "kmxo",
                "corr_ymi_y", "corr_ymo_y", "kmyi", "kmyo", "corr_zm_z", "kmz"}
AllDirections == {"x", "y", "z"}

\* the channels a direction reads (lines 117, 134, 151)
Required(d) ==
    CASE d = "x" -> {"jmxi", "jmxo"}
      [] d = "y" -> {"jmyi", "jmyo"}
      [] d = "z" -> {"jmz"}

\* Components with the y block's last key left as pasted from the x block
Components_pasted_key(d) ==
    CASE d = "x" -> << <<"jmxi", "corr_xmi_x", "kmxi">>, <<"jmxo", "corr_xmo_x", "kmxo">> >>
      [] d = "y" -> << <<"jmyi", "corr_ymi_y", "kmyi">>, <<"jmyo", "corr_ymo_y", "kmxo">> >>
      [] d = "z" -> << <<"jmz", "corr_zm_z", "kmz">> >>

\* <<input channel, correlation key, conductivity key>> in the order of the
\* loop body (lines 126-130, 143-147, 158-159)
Components(d) ==
    CASE d = "x" -> << <<"jmxi", "corr_xmi_x", "kmxi">>, <<"jmxo", "corr_xmo_x", "kmxo">> >>
      [] d = "y" -> << <<"jmyi", "corr_ymi_y", "kmyi">>, <<"jmyo", "corr_ymo_y", "kmyo">> >>
      [] d = "z" -> << <<"jmz", "corr_zm_z", "kmz">> >>

CorrKeys(d) == {Components(d)[i][2] : i \in DOMAIN Components(d)}
KappaKeys(d) == {Components(d)[i][3] : i \in DOMAIN Components(d)}
KeysOf(d) == CorrKeys(d) \cup KappaKeys(d)

\* the local name of a direction's summed reference series
RefName(d) == CASE d = "x" -> "jx" [] d = "y" -> "jy" [] d = "z" -> "jz"

\* the block that follows a direction's block
After(d) == CASE d = "x" -> "y" [] d = "y" -> "z" [] d = "z" -> "rescale"

EmptyDict == [k \in {} |-> None]
Put(d, k, v) == [kk \in (DOMAIN d) \cup {k} |-> IF kk = k THEN v ELSE d[kk]]

\* data loaded by load_heatmode: a (nbins, nsamples) array per channel.  The
\* values are the sampled wave 1, 0, -1, 0 with a phase that depends on the
\* channel, the bin and seed
Wave(i) == CASE i % 4 = 0 -> 1 [] i % 4 = 1 -> 0 [] i % 4 = 2 -> -1 [] i % 4 = 3 -> 0
Phase(ch) ==
    CASE ch = "jmz" -> 0 [] ch = "jmxi" -> 1 [] ch = "jmxo" -> 2
      [] ch = "jmyi" -> 3 [] ch = "jmyo" -> 1
HeatCurrent(ch, seed, nbins, nsamples) ==
    [b \in 1..nbins |-> [t \in 1..nsamples |->
        RInt(Wave(seed + Phase(ch) + 3 * (b - 1) + (t - 1)))]]

\* the direction strings a caller passes: any order of any non-empty subset
DirectionStrings ==
    { <<"x">>, <<"y">>, <<"z">>, <<"x", "y">>, <<"y", "x">>, <<"x", "z">>,
      <<"y", "z">>, <<"x", "y", "z">>, <<"z", "y", "x">> }

\* __get_direction(directions) of thermo.gpumd.data: the directions named by
\* the string; the callers only test membership
get_direction(directions) == {directions[i] : i \in DOMAIN directions}

VARIABLES
    pc,       \* position in get_gkma_kappa
    args,     \* its arguments
    data,     \* the caller's dataset (the dict object passed as data)
    data0,    \* the dataset as it was when the call began
    max_lag,  \* local max_lag, bound at line 107 (0 while unbound)
    dirs,     \* local directions as bound at line 112 ({} while unbound)
    m,        \* loop variable of the current direction's loop
    jref,     \* the live reference sums: local name -> array
    err,      \* the exception that ended the call, None if none
    ret,      \* what the call returned: "unset", None or DataRef
    file,     \* the output file: << >> if never written, else <<content>>
    calls,    \* the calls of __scale_gpumd_tc made so far: [vol, T, value]
    ave,      \* a call of running_ave: its arguments, position and result
    shc,      \* the record passed to hnemd_spectral_kappa
    shc0,     \* that record as it was when the call began
    hn        \* a call of hnemd_spectral_kappa: arguments, position, result

vars == << pc, args, data, data0, max_lag, dirs, m, jref, err, ret, file,
           calls, ave, shc, shc0, hn >>
others == << calls, ave, shc, shc0, hn >>
gkma == << pc, args, data, data0, max_lag, dirs, m, jref, err, ret, file >>

\* no call of the named function is under way
NoScaleCalls == calls = << >>
NoAveCall == ave = [pc |-> "idle"]
NoHnemdCall == shc = [k \in {} |-> None] /\ shc0 = shc /\ hn = [pc |-> "idle"]
NoGkmaCall ==
    /\ pc = "idle"
    /\ args = [directions |-> << >>]
    /\ data = [k \in {} |-> None]
    /\ data0 = data
    /\ max_lag = 0
    /\ dirs = {}
    /\ m = 0
    /\ jref = [k \in {} |-> None]
    /\ err = None
    /\ ret = "unset"
    /\ file = << >>

\* the identity of the dict object the caller passed
DataRef == "data"

\* lines 96-107: the float arithmetic that resolves the max lag index
srate(a) == FMul(FInt(a.sample_interval), a.dt)
tot_time(a) == FMul(srate(a), FInt(a.nsamples - 1))
max_tau_fs(a) == IF a.max_tau = Omitted THEN tot_time(a) ELSE FMul(a.max_tau, FInt(1000000))
resolve_max_lag(a) == Floor(FDiv(max_tau_fs(a), srate(a)))

NewCall(a, missing, seed) ==
    /\ args = a
    /\ data = [ch \in Channels \ missing |-> HeatCurrent(ch, seed, a.nbins, a.nsamples)]
    /\ data0 = data
    /\ pc = "start"
    /\ max_lag = 0
    /\ dirs = {}
    /\ m = 0
    /\ jref = EmptyDict
    /\ err = None
    /\ ret = "unset"
    /\ file = << >>

\* calls that vary the channels present, the directions, the lag and the
\* flags; max_tau (ns) is omitted or a float m * 2^e: with dt = 1 the values
\* below resolve to the lags 1, 15, -1 and -4
InitControl ==
    \E missing \in SUBSET Channels, ds \in DirectionStrings,
       nb \in 1..MaxBins, ns \in 1..MaxSamples,
       mt \in {Omitted, <<1, -19>>, <<1, -16>>, <<-1, -20>>, <<-1, -18>>},
       sv \in BOOLEAN, rd \in BOOLEAN :
        /\ Cardinality(missing) <= MaxMissing
        /\ NewCall([nbins |-> nb, nsamples |-> ns, dt |-> <<1, 0>>, sample_interval |-> 1,
                    T |-> 1, vol |-> 1, max_tau |-> mt, directions |-> ds,
                    save |-> sv, return_data |-> rd], missing, 0)

\* calls on a complete dataset that vary the numbers
InitNumeric ==
    \E ds \in {<<"z">>, <<"x", "y", "z">>},
       nb \in 1..MaxBins, ns \in 1..MaxSamples,
       dt \in {<<1, 0>>, <<7, 0>>}, si \in 1..MaxInterval,
       T \in {1, MaxTemp}, vol \in {1, MaxVol},
       mt \in {Omitted, <<1, -20>>, <<1, -18>>}, seed \in 0..3 :
        NewCall([nbins |-> nb, nsamples |-> ns, dt |-> dt, sample_interval |-> si,
                 T |-> T, vol |-> vol, max_tau |-> mt, directions |-> ds,
                 save |-> TRUE, return_data |-> TRUE], {}, seed)

Init ==
    /\ InitControl \/ InitNumeric
    /\ NoScaleCalls
    /\ NoAveCall
    /\ NoHnemdCall

Raise(e) ==
    /\ pc' = "raised"
    /\ err' = e

\* lines 89-109: resolve the lag and store the lag axis
Resolve ==
    /\ pc = "start"
    /\ LET lag == resolve_max_lag(args)
       IN  /\ max_lag' = lag
           /\ IF linspace_raises(lag + 1)
              THEN /\ Raise("Number of samples must be non-negative")
                   /\ UNCHANGED data
              ELSE /\ data' = Put(data, "tau", linspace(lag, FVal(srate(args)), lag + 1))
                   /\ pc' = "directions"
                   /\ UNCHANGED err
    /\ UNCHANGED << args, data0, dirs, m, jref, ret, file >>
    /\ UNCHANGED others

\* line 112
GetDirection ==
    /\ pc = "directions"
    /\ dirs' = get_direction(args.directions)
    /\ pc' = "x"
    /\ UNCHANGED << args, data, data0, max_lag, m, jref, err, ret, file >>
    /\ UNCHANGED others

\* np.sum(data['jmxi'] + data['jmxo'], axis=0), np.sum(data['jmz'], axis=0)
RefSum(dat, d, nsamples) ==
    IF d = "z" THEN sum_axis0(dat["jmz"], nsamples)
    ELSE sum_axis0(add2d(dat[Components(d)[1][1]], dat[Components(d)[2][1]]), nsamples)

RECURSIVE Allocate(_, _, _, _)
\* data[key] = np.zeros((nbins, size)) for the keys of a direction
Allocate(dat, keys, nbins, size) ==
    IF keys = {} THEN dat
    ELSE LET k == CHOOSE kk \in keys : TRUE
         IN  Allocate(Put(dat, k, zeros(nbins, size)), keys \ {k}, nbins, size)

\* Check with the missing-channel test turned into a skip of the direction
Check_skips_direction(d) ==
    /\ pc = d
    /\ IF d \notin dirs \/ ~ (Required(d) \subseteq DOMAIN data)
       THEN /\ pc' = After(d)
            /\ UNCHANGED << data, m, jref, err >>
       ELSE /\ jref' = Put(jref, RefName(d), RefSum(data, d, args.nsamples))
            /\ data' = Allocate(data, KeysOf(d), args.nbins, max_lag + 1)
            /\ m' = 0
            /\ pc' = d \o "_loop"
            /\ UNCHANGED err
    /\ UNCHANGED << args, data0, max_lag, dirs, ret, file >>
    /\ UNCHANGED others

\* lines 116-124, 133-141, 150-156: test the direction, check its channels,
\* sum the reference series, allocate the outputs.  np.zeros cannot raise
\* here: size >= 0, or np.linspace would have raised at line 109.
Check(d) ==
    /\ pc = d
    /\ IF d \notin dirs
       THEN /\ pc' = After(d)
            /\ UNCHANGED << data, m, jref, err >>
       ELSE IF ~ (Required(d) \subseteq DOMAIN data)
       THEN /\ Raise(d \o " direction data is missing")
            /\ UNCHANGED << data, m, jref >>
       ELSE /\ jref' = Put(jref, RefName(d), RefSum(data, d, args.nsamples))
            /\ data' = Allocate(data, KeysOf(d), args.nbins, max_lag + 1)
            /\ m' = 0
            /\ pc' = d \o "_loop"
            /\ UNCHANGED err
    /\ UNCHANGED << args, data0, max_lag, dirs, ret, file >>
    /\ UNCHANGED others

RECURSIVE Body(_, _, _, _, _, _, _)
\* one pass of the loop body for bin b (row b + 1): for each component, the
\* correlation against the reference sum and its scaled cumulative integral.
\* The result is the dataset and the error raised on the way, if any.
Body(dat, comps, i, b, ref, lag, scale) ==
    IF i > Len(comps) THEN [data |-> dat, err |-> None]
    ELSE LET ch == comps[i][1]
             ck == comps[i][2]
             kk == comps[i][3]
         IN  IF corr_raises(dat[ch][b + 1], ref, lag)
             THEN [data |-> dat, err |-> "corr: invalid input"]
             ELSE LET c == corr(dat[ch][b + 1], ref, lag)
                      d1 == Put(dat, ck, SetRow(dat[ck], c, b + 1))
                  IN  IF cumtrapz_raises(d1[ck][b + 1], d1["tau"])
                      THEN [data |-> d1, err |-> "cumtrapz: shape mismatch"]
                      ELSE LET k == cumtrapz(d1[ck][b + 1], d1["tau"])
                           IN  Body(Put(d1, kk, SetRow(d1[kk], scale1d(k, scale), b + 1)),
                                    comps, i + 1, b, ref, lag, scale)

\* lines 125-130, 142-147, 157-159: one iteration of for m in range(nbins)
Loop(d) ==
    /\ pc = d \o "_loop"
    /\ m < args.nbins
    /\ LET r == Body(data, Components(d), 1, m, jref[RefName(d)], max_lag,
                     scale_gpumd_tc(args.vol, args.T))
       IN  /\ data' = r.data
           /\ IF r.err # None
              THEN /\ Raise(r.err)
                   /\ UNCHANGED m
              ELSE /\ m' = m + 1
                   /\ UNCHANGED << pc, err >>
    /\ UNCHANGED << args, data0, max_lag, dirs, jref, ret, file >>
    /\ UNCHANGED others

\* Del without the del statement
Del_keeps_reference(d) ==
    /\ pc = d \o "_loop"
    /\ m >= args.nbins
    /\ pc' = After(d)
    /\ UNCHANGED << args, data, data0, max_lag, dirs, m, jref, err, ret, file >>
    /\ UNCHANGED others

\* lines 131, 148, 160: del jx / del jy / del jz after the loop
Del(d) ==
    /\ pc = d \o "_loop"
    /\ m >= args.nbins
    /\ jref' = [n \in (DOMAIN jref) \ {RefName(d)} |-> jref[n]]
    /\ pc' = After(d)
    /\ UNCHANGED << args, data, data0, max_lag, dirs, m, err, ret, file >>
    /\ UNCHANGED others

CheckX == Check("x")
LoopX == Loop("x")
DelX == Del("x")
CheckY == Check("y")
LoopY == Loop("y")
DelY == Del("y")
CheckZ == Check("z")
LoopZ == Loop("z")
DelZ == Del("z")

\* Rescale without the division: tau is left in fs
Rescale_omitted ==
    /\ pc = "rescale"
    /\ pc' = "save"
    /\ UNCHANGED << args, data, data0, max_lag, dirs, m, jref, err, ret, file >>
    /\ UNCHANGED others

\* line 162: data['tau'] = data['tau'] / 1.e6
Rescale ==
    /\ pc = "rescale"
    /\ data' = Put(data, "tau", scale1d(data["tau"], Rat(1, 1000000)))
    /\ pc' = "save"
    /\ UNCHANGED << args, data0, max_lag, dirs, m, jref, err, ret, file >>
    /\ UNCHANGED others

\* Save without the test of the save flag
Save_always ==
    /\ pc = "save"
    /\ file' = << data >>
    /\ pc' = "return"
    /\ UNCHANGED << args, data, data0, max_lag, dirs, m, jref, err, ret >>
    /\ UNCHANGED others

\* lines 164-165: np.save(out_path, data)
Save ==
    /\ pc = "save"
    /\ file' = IF args.save THEN << data >> ELSE file
    /\ pc' = "return"
    /\ UNCHANGED << args, data, data0, max_lag, dirs, m, jref, err, ret >>
    /\ UNCHANGED others

\* lines 167-169
Return ==
    /\ pc = "return"
    /\ ret' = IF args.return_data THEN DataRef ELSE None
    /\ pc' = "done"
    /\ UNCHANGED << args, data, data0, max_lag, dirs, m, jref, err, file >>
    /\ UNCHANGED others

Next ==
    \/ Resolve
    \/ GetDirection
    \/ CheckX
    \/ LoopX
    \/ DelX
    \/ CheckY
    \/ LoopY
    \/ DelY
    \/ CheckZ
    \/ LoopZ
    \/ DelZ
    \/ Rescale
    \/ Save
    \/ Return

Spec == Init /\ [][Next]_vars

(***************************************************************************)
(* __scale_gpumd_tc as a function of its two arguments: up to MaxCalls     *)
(* calls, each recorded with its arguments and its value.                  *)
(***************************************************************************)
MaxCalls == 2

InitScale ==
    /\ NoGkmaCall
    /\ NoScaleCalls
    /\ NoAveCall
    /\ NoHnemdCall

CallScale ==
    /\ Len(calls) < MaxCalls
    /\ \E vol \in 1..MaxVol, T \in 1..MaxTemp :
          calls' = Append(calls, [vol |-> vol, T |-> T,
                                  value |-> scale_gpumd_tc(vol, T)])
    /\ UNCHANGED << gkma, ave, shc, shc0, hn >>

NextScale == CallScale

SpecScale == InitScale /\ [][NextScale]_vars

(***************************************************************************)
(* running_ave(kappa, time), lines 172-183.                                *)
(***************************************************************************)
\* the running average with index 0 guarded when time[0] = 0
running_ave_guarded(kappa, time) ==
    LET F == cumtrapz(kappa, time)
    IN  [n \in 1..Len(F) |->
            IF time[n][1] = 0 THEN RInt(0) ELSE NpDiv(F[n], time[n])]

\* cumtrapz(kappa, time, initial=0) / time, an elementwise numpy division
running_ave(kappa, time) ==
    LET F == cumtrapz(kappa, time)
    IN  [n \in 1..Len(F) |-> NpDiv(F[n], time[n])]

\* time axes t0, t0 + step, ... and kappa samples in -1..1
TimeAxis(t0, step, len) == [n \in 1..len |-> RInt(t0 + (n - 1) * step)]
KappaValues == {RInt(-1), RInt(0), RInt(1)}

InitAve ==
    /\ NoGkmaCall
    /\ NoScaleCalls
    /\ NoHnemdCall
    /\ \E len \in 1..MaxLen, t0 \in {0, 1}, step \in {1, 2} :
       \E kappa \in [1..len -> KappaValues] :
          ave = [pc |-> "call", kappa |-> kappa, time |-> TimeAxis(t0, step, len)]

RunningAve ==
    /\ ave.pc = "call"
    /\ ave' = [pc |-> "returned", kappa |-> ave.kappa, time |-> ave.time,
               out |-> running_ave(ave.kappa, ave.time), err |-> None]
    /\ UNCHANGED << gkma, calls, shc, shc0, hn >>

NextAve == RunningAve

SpecAve == InitAve /\ [][NextAve]_vars

(***************************************************************************)
(* hnemd_spectral_kappa(shc, Fe, T, V), lines 186-216.                     *)
(***************************************************************************)
\* line 214: convert = 1602.17662
convert == Rat(160217662, 100000)

\* the identity of the dict object the caller passed as shc
ShcRef == "shc"

\* J * convert / (Fe * T * V) on an array J
spectral_kappa(J, Fe, T, V) ==
    [k \in 1..Len(J) |-> NpDiv(RMul(J[k], convert), RMul(RMul(Fe, T), V))]

\* records of load_shc with or without the two currents; a current is an
\* array of one frequency bin
InitHnemd ==
    /\ NoGkmaCall
    /\ NoScaleCalls
    /\ NoAveCall
    /\ \E keys \in SUBSET {"J_in", "J_out"}, jin \in (0 - MaxJ)..MaxJ, jout \in (0 - MaxJ)..MaxJ,
          Fe \in {Rat(1, 2), RInt(1)}, T \in {1, MaxTemp}, V \in {1, MaxVol} :
          /\ ("J_in" \notin keys => jin = 0)
          /\ ("J_out" \notin keys => jout = 0)
          /\ shc = [k \in keys \cup {"nu"} |->
                      IF k = "J_in" THEN << RInt(jin) >>
                      ELSE IF k = "J_out" THEN << RInt(jout) >>
                      ELSE << RInt(1) >>]
          /\ shc0 = shc
          /\ hn = [pc |-> "call", Fe |-> Fe, T |-> RInt(T), V |-> RInt(V),
                   ret |-> "unset", err |-> None]

\* lines 210-216; the function ends without a return statement, so a call
\* that does not raise returns None
HnemdSpectralKappa ==
    /\ hn.pc = "call"
    /\ IF "J_in" \notin DOMAIN shc \/ "J_out" \notin DOMAIN shc
       THEN /\ hn' = [hn EXCEPT !.pc = "raised",
                         !.err = "shc argument must be from load_shc and contain in/out heat currents."]
            /\ UNCHANGED shc
       ELSE /\ shc' = Put(Put(shc, "k_in", spectral_kappa(shc["J_in"], hn.Fe, hn.T, hn.V)),
                          "k_out", spectral_kappa(shc["J_out"], hn.Fe, hn.T, hn.V))
            /\ hn' = [hn EXCEPT !.pc = "returned", !.ret = None]
    /\ UNCHANGED << gkma, calls, ave, shc0 >>

NextHnemd == HnemdSpectralKappa

SpecHnemd == InitHnemd /\ [][NextHnemd]_vars

(***************************************************************************)
(* Properties of get_gkma_kappa.                                           *)
(***************************************************************************)
Requested == get_direction(args.directions)
MissingDirections == {d \in Requested : ~ (Required(d) \subseteq DOMAIN data0)}
MissingError(e) == \E d \in AllDirections : e = d \o " direction data is missing"
Succeeding == pc \in {"rescale", "save", "return", "done"}

\* C1: a call that requests a direction whose required channel is absent
\* never reaches the successful tail and never returns a dataset; when it
\* has stopped, it has stopped by raising.
C1_MissingChannelRaises ==
    MissingDirections # {} =>
        /\ ~ Succeeding
        /\ ret = "unset"

\* the y direction is found missing after the x direction was processed
C1_Witness ==
    /\ pc = "raised"
    /\ err = "y direction data is missing"
    /\ "x" \in dirs
    /\ MissingDirections = {"y"}

\* C2: when the call raises for a missing channel, the dataset holds no key
\* that it did not hold before the call.
C2_NoDerivedKeyAtMissingError ==
    (pc = "raised" /\ MissingError(err)) => DOMAIN data = DOMAIN data0

OutOfRange(lag) == lag < 0 \/ lag >= args.nsamples

\* C3: once the max lag index is resolved outside 0 <= max_lag < nsamples the
\* call has raised and no derived key has been written.
C3_OutOfRangeLagRejected ==
    (pc # "start" /\ OutOfRange(max_lag)) =>
        (pc = "raised" /\ DOMAIN data = DOMAIN data0)

\* C4: max_lag is nsamples - 1 when max_tau is omitted and
\* floor(max_tau * 1e6 / s) otherwise; tau has max_lag + 1 points k * s, and
\* every derived array of a requested direction has shape (nbins, max_lag + 1).
C4_LagAxisAndShapes ==
    (pc \notin {"start", "raised"}) =>
        /\ args.max_tau = Omitted => max_lag = args.nsamples - 1
        /\ args.max_tau # Omitted =>
              max_lag = Floor(FDiv(FMul(args.max_tau, FInt(1000000)),
                                   FMul(FInt(args.sample_interval), args.dt)))
        /\ pc \notin {"save", "return", "done"} =>
              /\ Len(data["tau"]) = max_lag + 1
              /\ \A k \in 0..max_lag :
                    data["tau"][k + 1] =
                        RMul(RInt(k), FVal(FMul(FInt(args.sample_interval), args.dt)))
        /\ \A d \in AllDirections : \A key \in KeysOf(d) :
              key \in DOMAIN data =>
                  /\ Len(data[key]) = args.nbins
                  /\ \A b \in 1..args.nbins : Len(data[key][b]) = max_lag + 1

\* C5: after a successful call element 0 of every accumulated-conductivity
\* array of every requested direction is 0 in every mode bin.
C5_KappaStartsAtZero ==
    pc = "done" =>
        \A d \in dirs : \A key \in KappaKeys(d) : \A b \in 1..args.nbins :
            data[key][b][1] = RInt(0)

\* a finished call whose correlation and conductivity are not all zero
C5_Witness ==
    /\ pc = "done"
    /\ "x" \in dirs
    /\ max_lag >= 1
    /\ data["corr_xmi_x"][1][1] # RInt(0)
    /\ data["kmxi"][1][2] # RInt(0)
    /\ data["kmxi"][1][1] = RInt(0)

ValidCall == MissingDirections = {} /\ ~ OutOfRange(resolve_max_lag(args))

Live == DOMAIN jref

\* C10: at most one reference sum is live, and only inside its direction's
\* loop; none is live at a direction's check, at a missing-channel error or
\* after the last direction; a reference sum appears only in the step that
\* passed its direction's check and disappears only after the last bin.
C10_OneReferenceSumLive ==
    /\ [] /\ Cardinality(Live) <= 1
          /\ \A d \in AllDirections :
                RefName(d) \in Live =>
                    \/ pc = d \o "_loop"
                    \/ pc = "raised" /\ ~ MissingError(err)
          /\ (pc = "raised" /\ MissingError(err)) => Live = {}
          /\ pc \in {"x", "y", "z", "rescale", "save", "return", "done"} => Live = {}
    /\ [][\A d \in AllDirections :
            /\ (RefName(d) \notin Live /\ RefName(d) \in DOMAIN jref') =>
                  (pc = d /\ d \in dirs /\ Required(d) \subseteq DOMAIN data
                   /\ pc' = d \o "_loop")
            /\ (RefName(d) \in Live /\ RefName(d) \notin DOMAIN jref') =>
                  (pc = d \o "_loop" /\ m = args.nbins /\ pc' = After(d))]_vars

\* the y reference sum is live after the x direction was completed
C10_Witness ==
    /\ pc = "y_loop"
    /\ Live = {"jy"}
    /\ "x" \in dirs
    /\ "kmxi" \in DOMAIN data
    /\ m = args.nbins

(***************************************************************************)
(* Properties of hnemd_spectral_kappa, running_ave and __scale_gpumd_tc.   *)
(***************************************************************************)
\* C6: a call on a record with J_in and J_out returns that record, which now
\* holds k_in = J_in * 1602.17662 / (Fe T V) and k_out = J_out * 1602.17662 /
\* (Fe T V); a call on a record lacking one of them raises and adds no key.
C6_HnemdReturnsAugmentedRecord ==
    /\ hn.pc = "returned" =>
          /\ {"J_in", "J_out"} \subseteq DOMAIN shc0
          /\ hn.ret = ShcRef
          /\ DOMAIN shc = DOMAIN shc0 \cup {"k_in", "k_out"}
          /\ \A k \in 1..Len(shc0["J_in"]) :
                shc["k_in"][k] =
                    NpDiv(RMul(shc0["J_in"][k], Rat(160217662, 100000)),
                          RMul(hn.Fe, RMul(hn.T, hn.V)))
          /\ \A k \in 1..Len(shc0["J_out"]) :
                shc["k_out"][k] =
                    NpDiv(RMul(shc0["J_out"][k], Rat(160217662, 100000)),
                          RMul(hn.Fe, RMul(hn.T, hn.V)))
    /\ hn.pc = "raised" =>
          /\ ~ ({"J_in", "J_out"} \subseteq DOMAIN shc0)
          /\ shc = shc0

\* the trapezoidal integral of y over x from x[1] to x[n]
TrapezoidIntegral(y, xs, n) ==
    RSum([i \in 1..(n - 1) |->
            RMul(Rat(1, 2), RMul(RAdd(y[i], y[i + 1]), RSub(xs[i + 1], xs[i])))],
         n - 1)

\* C8: running_ave returns, without raising, F(n)/time[n] at every index
\* n >= 1, and at index 0 the non-finite 0/0 when time[0] = 0.
C8_RunningAveUnguarded ==
    ave.pc = "returned" =>
        /\ ave.err = None
        /\ Len(ave.out) = Len(ave.kappa)
        /\ \A n \in 2..Len(ave.out) :
              ave.out[n] = NpDiv(TrapezoidIntegral(ave.kappa, ave.time, n), ave.time[n])
        /\ ave.time[1] = RInt(0) => ave.out[1] \in {NaN, Inf}
        /\ ave.time[1] # RInt(0) => ave.out[1] = RInt(0)

\* a returned running average over a time axis that starts at 0
C8_Witness ==
    /\ ave.pc = "returned"
    /\ Len(ave.out) >= 2
    /\ ave.time[1] = RInt(0)
    /\ ave.out[1] = NaN
    /\ IsRat(ave.out[2])
    /\ ave.out[2] # RInt(0)

\* C9: of two values of __scale_gpumd_tc, the one at the larger T (same vol)
\* and the one at the larger vol (same T) is strictly smaller.
C9_ScaleStrictlyDecreasing ==
    \A i \in DOMAIN calls : \A j \in DOMAIN calls :
        /\ (calls[i].vol = calls[j].vol /\ calls[i].T < calls[j].T) =>
              RLess(calls[j].value, calls[i].value)
        /\ (calls[i].T = calls[j].T /\ calls[i].vol < calls[j].vol) =>
              RLess(calls[j].value, calls[i].value)

\* two calls at one T and different volumes
C9_Witness ==
    /\ Len(calls) = 2
    /\ calls[1].T = calls[2].T
    /\ calls[1].vol < calls[2].vol
    /\ calls[1].T > 1

(***************************************************************************)
(* Frame of get_gkma_kappa.                                                *)
(***************************************************************************)
\* the keys the claim lists for a direction
ListedKeys(d) ==
    CASE d = "x" -> {"corr_xmi_x", "corr_xmo_x", "kmxi", "kmxo"}
      [] d = "y" -> {"corr_ymi_y", "corr_ymo_y", "kmyi", "kmyo"}
      [] d = "z" -> {"corr_zm_z", "kmz"}

\* C11: a successful call adds exactly tau and the listed keys of the
\* requested directions, no key of a direction that was not requested, and
\* at every moment of the call every input channel is present and unchanged.
C11_ExactlyRequestedKeysAdded ==
    /\ pc = "done" =>
          /\ (DOMAIN data) \ (DOMAIN data0) =
                {"tau"} \cup UNION {ListedKeys(d) : d \in Requested}
          /\ \A d \in AllDirections \ Requested : ListedKeys(d) \cap DOMAIN data = {}
    /\ \A ch \in DOMAIN data0 : ch \in DOMAIN data /\ data[ch] = data0[ch]

\* a finished call for y alone on a dataset that holds all five channels
C11_Witness ==
    /\ pc = "done"
    /\ Requested = {"y"}
    /\ DOMAIN data0 = Channels
    /\ "kmyo" \in DOMAIN data
    /\ max_lag >= 1

(***************************************************************************)
(* The lag axis of get_gkma_kappa.                                         *)
(***************************************************************************)
\* the sampling interval s = sample_interval * dt and the axes k * s (fs)
\* and k * s / 1e6 (ns) for k = 0..max_lag
SamplingInterval == FVal(FMul(FInt(args.sample_interval), args.dt))
NativeAxis == [k \in 1..(max_lag + 1) |-> RMul(RInt(k - 1), SamplingInterval)]
NsAxis == [k \in 1..(max_lag + 1) |-> Rat((k - 1) * SamplingInterval[1],
                                            1000000 * SamplingInterval[2])]

KappaWritten(key) ==
    \/ key \notin DOMAIN data /\ key \in DOMAIN data'
    \/ key \in DOMAIN data /\ key \in DOMAIN data' /\ data'[key] # data[key]

====
